---- MODULE Spec2Model ----
(***************************************************************************)
(* Model of datajoint_babel: the type grammar (DJ_Type), the row grammar   *)
(* (Comment, Attribute, Dependency) and the table assembler / serializer   *)
(* (Table.from_definition, Table.make).                                    *)
(*                                                                         *)
(* Python strings are modelled as sequences of one-character strings, so   *)
(* that strip / rstrip / split / "in" / parse.parse are computed the way   *)
(* the code computes them.  Python None is the record None; a raised       *)
(* exception is a result record Err(..), a returned value is Ok(..).       *)
(***************************************************************************)
EXTENDS Integers, Sequences, FiniteSets, TLC

VARIABLES
    \* ---- DJ_Type.from_string / DJ_Type.make pipeline ----
    t_pc,          \* position in the parse -> make -> re-parse pipeline
    t_input,       \* the type token handed to DJ_Type.from_string
    t_parsed,      \* result of DJ_Type.from_string(t_input)
    t_made,        \* result of .make() on the parsed value
    t_reparsed,    \* result of DJ_Type.from_string(t_made)
    \* ---- Table.from_definition ----
    pc,            \* position inside Table.from_definition
    definition,    \* argument: the definition body
    tier,          \* argument: the tier (None when not supplied)
    lines,         \* local: definition.split('\n')
    idx,           \* number of elements of lines the for loop has consumed
    passed_keys,   \* local
    comment,       \* local
    keys,          \* local
    attrs,         \* local
    result,        \* what the caller observes: None, Ok(Table) or Err(exception)
    \* ---- Table.make ----
    m_pc,          \* position of the programmatic build -> make sequence
    m_args,        \* keyword arguments of the programmatic Table(...) call
    m_self,        \* the Table that make is called on
    m_lang,        \* argument lang
    m_out          \* what the caller of make observes

vars == <<t_pc, t_input, t_parsed, t_made, t_reparsed,
          pc, definition, tier, lines, idx, passed_keys, comment, keys, attrs, result,
          m_pc, m_args, m_self, m_lang, m_out>>

t_vars == <<t_pc, t_input, t_parsed, t_made, t_reparsed>>
d_vars == <<pc, definition, tier, lines, idx, passed_keys, comment, keys, attrs, result>>
m_vars == <<m_pc, m_args, m_self, m_lang, m_out>>

-----------------------------------------------------------------------------
(* Values *)

None == [k |-> "None", v |-> <<>>]
Ok(x) == [k |-> "ok", v |-> x]
\* an exception: its class, and the format / offending text it carries (strs)
Err(type, format, input) ==
    [k |-> "err", v |-> [type |-> type, format |-> format, input |-> input]]
\* x is None
IsNone(x) == "k" \in DOMAIN x /\ x.k = "None"
IsOk(r) == r.k = "ok"
IsErr(r) == r.k = "err"

-----------------------------------------------------------------------------
(* Python str primitives *)

Whitespace == {" ", "\t", "\n", "\r"}
Digits == {"0", "1", "2", "3", "4", "5", "6", "7", "8", "9"}
LowerAlphas == {"a","b","c","d","e","f","g","h","i","j","k","l","m",
                "n","o","p","q","r","s","t","u","v","w","x","y","z"}
UpperAlphas == {"A","B","C","D","E","F","G","H","I","J","K","L","M",
                "N","O","P","Q","R","S","T","U","V","W","X","Y","Z"}
Alphas == LowerAlphas \cup UpperAlphas

UpperSeq == <<"A","B","C","D","E","F","G","H","I","J","K","L","M",
              "N","O","P","Q","R","S","T","U","V","W","X","Y","Z">>
LowerSeq == <<"a","b","c","d","e","f","g","h","i","j","k","l","m",
              "n","o","p","q","r","s","t","u","v","w","x","y","z">>

\* str.lower() on one character
LowerChar(c) ==
    IF c \in UpperAlphas
    THEN LowerSeq[CHOOSE i \in 1..26 : UpperSeq[i] = c]
    ELSE c

\* str.lower()
Lower(s) == [i \in 1..Len(s) |-> LowerChar(s[i])]

\* s[a:b] with 1-based inclusive bounds, empty when a > b
Slice(s, a, b) == IF a > b THEN <<>> ELSE SubSeq(s, a, b)

\* s.startswith(p)
StartsWith(s, p) == Len(p) <= Len(s) /\ Slice(s, 1, Len(p)) = p

\* s.endswith(p)
EndsWith(s, p) == Len(p) <= Len(s) /\ Slice(s, Len(s) - Len(p) + 1, Len(s)) = p

\* the positions at which sub occurs in s
Occurrences(s, sub) ==
    {i \in 1..(Len(s) - Len(sub) + 1) : Slice(s, i, i + Len(sub) - 1) = sub}

\* sub in s
Contains(s, sub) == Occurrences(s, sub) # {}

\* s.find(sub) + 1  (0 when absent)
Find(s, sub) ==
    IF Occurrences(s, sub) = {} THEN 0
    ELSE CHOOSE i \in Occurrences(s, sub) : \A j \in Occurrences(s, sub) : i <= j

\* s.rstrip(chars)
RECURSIVE RStripChars(_, _)
RStripChars(s, chars) ==
    IF Len(s) > 0 /\ s[Len(s)] \in chars
    THEN RStripChars(Slice(s, 1, Len(s) - 1), chars)
    ELSE s

\* s.lstrip(chars)
RECURSIVE LStripChars(_, _)
LStripChars(s, chars) ==
    IF Len(s) > 0 /\ s[1] \in chars
    THEN LStripChars(Slice(s, 2, Len(s)), chars)
    ELSE s

\* s.strip()
Strip(s) == LStripChars(RStripChars(s, Whitespace), Whitespace)

\* the set of characters of a str, as rstrip(chars) uses its argument
CharSet(s) == {s[i] : i \in 1..Len(s)}

\* s.split(sep), sep non-empty
RECURSIVE Split(_, _)
Split(s, sep) ==
    LET i == Find(s, sep)
    IN  IF i = 0 THEN <<s>>
        ELSE <<Slice(s, 1, i - 1)>> \o Split(Slice(s, i + Len(sep), Len(s)), sep)

\* sep.join(parts)
RECURSIVE Join(_, _)
Join(parts, sep) ==
    IF Len(parts) = 0 THEN <<>>
    ELSE IF Len(parts) = 1 THEN parts[1]
    ELSE parts[1] \o sep \o Join(Tail(parts), sep)

\* str(n) for a non-negative int
RECURSIVE IntToStr(_)
IntToStr(n) ==
    LET d == <<"0", "1", "2", "3", "4", "5", "6", "7", "8", "9">>[(n % 10) + 1]
    IN  IF n < 10 THEN <<d>> ELSE IntToStr(n \div 10) \o <<d>>

DigitVal(c) == CHOOSE n \in 0..9 : IntToStr(n) = <<c>>

\* int(s) for a str of decimal digits
RECURSIVE DigitsToInt(_)
DigitsToInt(s) ==
    IF Len(s) = 0 THEN 0
    ELSE 10 * DigitsToInt(Slice(s, 1, Len(s) - 1)) + DigitVal(s[Len(s)])

\* whether int(s) succeeds: decimal digits, surrounding whitespace allowed
IsIntLiteral(s) ==
    LET b == Strip(s) IN Len(b) > 0 /\ \A i \in 1..Len(b) : b[i] \in Digits

\* int(s)
StrToInt(s) == DigitsToInt(Strip(s))

-----------------------------------------------------------------------------
(* constants.py *)

DATATYPES == {
    <<"t","i","n","y","i","n","t">>,
    <<"s","m","a","l","l","i","n","t">>,
    <<"m","e","d","i","u","m","i","n","t">>,
    <<"i","n","t">>,
    <<"e","n","u","m">>,
    <<"d","a","t","e">>,
    <<"t","i","m","e">>,
    <<"d","a","t","e","t","i","m","e">>,
    <<"t","i","m","e","s","t","a","m","p">>,
    <<"c","h","a","r">>,
    <<"v","a","r","c","h","a","r">>,
    <<"f","l","o","a","t">>,
    <<"d","o","u","b","l","e">>,
    <<"d","e","c","i","m","a","l">>,
    <<"b","l","o","b">>,
    <<"t","i","n","y","b","l","o","b">>,
    <<"m","e","d","i","u","m","b","l","o","b">>,
    <<"l","o","n","g","b","l","o","b">>,
    <<"a","t","t","a","c","h">>,
    <<"f","i","l","e","p","a","t","h">> }

Manual == <<"M","a","n","u","a","l">>
Lookup == <<"L","o","o","k","u","p">>
Imported == <<"I","m","p","o","r","t","e","d">>
Computed == <<"C","o","m","p","u","t","e","d">>
Part == <<"P","a","r","t">>

\* the keys of TIER_MAP
TIER_MAP == {Manual, Lookup, Imported, Computed, Part}

TIERS == {Manual, Lookup, Imported, Computed}

-----------------------------------------------------------------------------
(* exceptions.py *)

\* ParseError.format_raise(format, input): the exception it raises
ParseError_format_raise(format, input) ==
    Err("ParseError", format, input)

-----------------------------------------------------------------------------
(* parse.parse: a format is compiled to an anchored regular expression in  *)
(* which every untyped field {name} is the non-greedy group (.+?)          *)

\* parse.parse("{datatype}({args})", s): None, or the named fields
ParseParameterized(s) ==
    LET n == Len(s)
        cands == {i \in 2..(n - 2) : s[i] = "("}
        i == CHOOSE c \in cands : \A d \in cands : c <= d
    IN  IF n >= 4 /\ s[n] = ")" /\ cands # {}
        THEN Ok([datatype |-> Slice(s, 1, i - 1), args |-> Slice(s, i + 1, n - 1)])
        ELSE None

\* parse.parse(prefix + "{field}", s): None, or the field
ParsePrefixed(prefix, s) ==
    IF StartsWith(s, prefix) /\ Len(s) > Len(prefix)
    THEN Ok(Slice(s, Len(prefix) + 1, Len(s)))
    ELSE None

-----------------------------------------------------------------------------
(* model/attribute.py: DJ_Type *)

\* argument values handed to the DJ_Type constructor
RawStr(s) == [k |-> "str", v |-> s]
RawList(l) == [k |-> "list", v |-> l]
\* validated values of the field args: Union[int, List[int], List[str]]
ArgInt(n) == [k |-> "int", v |-> <<n>>]
ArgInts(l) == [k |-> "ints", v |-> l]
ArgStrs(l) == [k |-> "strs", v |-> l]

\* pydantic validation of  args: Optional[Union[int, List[int], List[str]]]
\* (the members of the Union are tried in order; the first that accepts wins)
ValidateArgs(raw) ==
    IF IsNone(raw) THEN Ok(None)
    ELSE IF raw.k = "str"
    THEN IF IsIntLiteral(raw.v) THEN Ok(ArgInt(StrToInt(raw.v)))
         ELSE Err("ValidationError", <<"a","r","g","s">>, raw.v)
    ELSE IF \A i \in 1..Len(raw.v) : IsIntLiteral(raw.v[i])
         THEN Ok(ArgInts([i \in 1..Len(raw.v) |-> StrToInt(raw.v[i])]))
         ELSE Ok(ArgStrs(raw.v))

\* DJ_Type(datatype=..., args=..., unsigned=...): the pydantic constructor
DJ_Type(datatype, args, unsigned) ==
    IF datatype \notin DATATYPES THEN Err("ValidationError", <<"d","a","t","a","t","y","p","e">>, datatype)
    ELSE IF IsErr(ValidateArgs(args)) THEN ValidateArgs(args)
    ELSE Ok([datatype |-> datatype, args |-> ValidateArgs(args).v, unsigned |-> unsigned])

\* repr(s) of a str without escapes: single quotes unless s has ' and no "
PyReprStr(s) ==
    IF "'" \in CharSet(s) /\ "\"" \notin CharSet(s)
    THEN <<"\"">> \o s \o <<"\"">>
    ELSE <<"'">> \o s \o <<"'">>

\* str(self.args)
ArgsToStr(args) ==
    IF args.k = "int" THEN IntToStr(args.v[1])
    ELSE IF args.k = "ints"
    THEN <<"[">> \o Join([i \in 1..Len(args.v) |-> IntToStr(args.v[i])], <<",", " ">>) \o <<"]">>
    ELSE IF args.k = "strs"
    THEN <<"[">> \o Join([i \in 1..Len(args.v) |-> PyReprStr(args.v[i])], <<",", " ">>) \o <<"]">>
    ELSE <<"N", "o", "n", "e">>

\* bool(self.args)
ArgsTruthy(args) ==
    IF args.k = "int" THEN args.v[1] # 0
    ELSE IF args.k \in {"ints", "strs"} THEN Len(args.v) > 0
    ELSE FALSE

\* DJ_Type.make
DJ_Type_make(self) ==
    LET withArgs ==
            IF ArgsTruthy(self.args)
            THEN IF self.datatype = <<"f","i","l","e","p","a","t","h">>
                 THEN self.datatype \o <<"@">> \o ArgsToStr(self.args)
                 ELSE IF self.args.k = "ints"
                 THEN self.datatype \o <<"(">>
                      \o Join([i \in 1..Len(self.args.v) |-> IntToStr(self.args.v[i])], <<",">>)
                      \o <<")">>
                 ELSE IF self.args.k = "strs"
                 THEN self.datatype \o <<"(">> \o Join(self.args.v, <<",">>) \o <<")">>
                 ELSE self.datatype \o <<"(">> \o ArgsToStr(self.args) \o <<")">>
            ELSE self.datatype
    IN  IF self.unsigned
        THEN withArgs \o <<" ","u","n","s","i","g","n","e","d">>
        ELSE withArgs

\* the first four statements of DJ_Type.from_string: the unsigned flag and
\* what is left of input
StripUnsigned(input) ==
    IF Contains(input, <<"u","n","s","i","g","n","e","d">>)
    THEN [unsigned |-> TRUE,
          input |-> RStripChars(input, CharSet(<<" ","u","n","s","i","g","n","e","d">>))]
    ELSE [unsigned |-> FALSE, input |-> input]

\* the filepath branch of DJ_Type.from_string:  datatype, args = '@'.split(input)
FilepathBranch(input) ==
    LET parts == Split(<<"@">>, input)
    IN  IF Len(parts) # 2 THEN Err("ValueError", <<>>, <<>>)
        ELSE DJ_Type(parts[1], RawStr(parts[2]), FALSE)

\* DJ_Type.from_string
DJ_Type_from_string(input0) ==
    LET u == StripUnsigned(input0)
        input == Strip(u.input)
        parameterized == ParseParameterized(input)
    IN  IF Contains(u.input, <<"@">>) THEN FilepathBranch(u.input)
        ELSE IF IsNone(parameterized) THEN DJ_Type(input, None, u.unsigned)
        ELSE IF Contains(parameterized.v.args, <<",">>)
             THEN DJ_Type(parameterized.v.datatype,
                          RawList(Split(parameterized.v.args, <<",">>)), u.unsigned)
             ELSE DJ_Type(parameterized.v.datatype,
                          RawStr(parameterized.v.args), u.unsigned)

-----------------------------------------------------------------------------
(* model/attribute.py: Comment, Attribute, Dependency *)

Comment_format == <<"#"," ","{","c","o","m","m","e","n","t","}">>
Dependency_format == <<"-",">"," ","{","d","e","p","e","n","d","e","n","c","y","}">>

\* Comment.from_string
Comment_from_string(input) ==
    LET parsed == ParsePrefixed(<<"#", " ">>, input)
    IN  IF IsNone(parsed) THEN ParseError_format_raise(Comment_format, input)
        ELSE Ok([row |-> "Comment", comment |-> parsed.v])

\* Comment.make
Comment_make(self) == Join(<< <<"#">>, self.comment >>, <<" ">>)

\* Dependency.from_string
Dependency_from_string(input) ==
    LET parsed == ParsePrefixed(<<"-", ">", " ">>, input)
    IN  IF IsNone(parsed) THEN ParseError_format_raise(Dependency_format, input)
        ELSE Ok([row |-> "Dependency", dependency |-> parsed.v])

\* Dependency.make
Dependency_make(self) == <<"-", ">", " ">> \o self.dependency

\* re.match(r"^(unique\s+)?index[^:]*$", input, re.I)
IndexMatch(input) ==
    LET l == Lower(input)
        index == <<"i","n","d","e","x">>
        unique == <<"u","n","i","q","u","e">>
        afterUnique == Slice(l, Len(unique) + 1, Len(l))
        afterSpace == LStripChars(afterUnique, Whitespace)
    IN  \/ /\ StartsWith(l, index)
           /\ ~Contains(Slice(l, Len(index) + 1, Len(l)), <<":">>)
        \/ /\ StartsWith(l, unique)
           /\ Len(afterSpace) < Len(afterUnique)
           /\ StartsWith(afterSpace, index)
           /\ ~Contains(Slice(afterSpace, Len(index) + 1, Len(afterSpace)), <<":">>)

\* the position of the first character of s at or after p that is outside chars
RECURSIVE SkipWhile(_, _, _)
SkipWhile(s, p, chars) ==
    IF p <= Len(s) /\ s[p] \in chars THEN SkipWhile(s, p + 1, chars) ELSE p

\* the position of the first occurrence of character c at or after p (0 when absent)
FindFrom(s, p, c) ==
    LET hits == {i \in p..Len(s) : s[i] = c}
    IN  IF hits = {} THEN 0 ELSE CHOOSE i \in hits : \A j \in hits : i <= j

\* datajoint.declare.attribute_parser.parseString(s), the pyparsing grammar
\*   name + Optional("=" + SkipTo(":")) + ":" + type + "#" + restOfLine
\* with  name = Word([a-z], [a-z0-9_])  and
\*       type = Combine(Word(alphas) + SkipTo("#")) ^ QuotedString("<", ">"),
\* white space being skipped before every token.  The result is None where
\* pyparsing raises ParseException.  (Quoted text, which SkipTo steps over,
\* does not occur in the lines of the model.)
attribute_parser(s) ==
    LET n0 == SkipWhile(s, 1, Whitespace)
        n1 == IF n0 <= Len(s) /\ s[n0] \in LowerAlphas
              THEN SkipWhile(s, n0 + 1, LowerAlphas \cup Digits \cup {"_"})
              ELSE n0
        e0 == SkipWhile(s, n1, Whitespace)
        hasEq == e0 <= Len(s) /\ s[e0] = "=" /\ FindFrom(s, e0 + 1, ":") # 0
        c0 == IF hasEq THEN FindFrom(s, e0 + 1, ":") ELSE e0
        y0 == SkipWhile(s, c0 + 1, Whitespace)
        \* Combine(Word(alphas) + SkipTo("#"))
        h0 == FindFrom(s, y0, "#")
        \* QuotedString("<", endQuoteChar=">", unquoteResults=False)
        q1 == FindFrom(s, y0 + 1, ">")
        h1 == SkipWhile(s, q1 + 1, Whitespace)
        alphaType == y0 <= Len(s) /\ s[y0] \in Alphas /\ h0 # 0
        quotedType == /\ y0 <= Len(s) /\ s[y0] = "<" /\ q1 > y0 + 1
                      /\ ~Contains(Slice(s, y0 + 1, q1 - 1), <<"\n">>)
                      /\ h1 <= Len(s) /\ s[h1] = "#"
        hash == IF alphaType THEN h0 ELSE h1
        type == IF alphaType THEN Slice(s, y0, h0 - 1) ELSE Slice(s, y0, q1)
    IN  IF /\ n1 > n0
           /\ c0 <= Len(s) /\ s[c0] = ":"
           /\ (alphaType \/ quotedType)
        THEN Ok([name |-> Slice(s, n0, n1 - 1),
                 default |-> IF hasEq THEN RawStr(Slice(s, e0 + 1, c0 - 1)) ELSE None,
                 type |-> type,
                 comment |-> Slice(s, hash + 1, Len(s))])
        ELSE None

\* Attribute.from_string
Attribute_from_string(input) ==
    LET pieces == attribute_parser(input \o <<"#">>)
        datatype == DJ_Type_from_string(pieces.v.type)
    IN  IF IndexMatch(input) THEN Err("NotImplementedError", <<>>, <<>>)
        ELSE IF IsNone(pieces) THEN Err("ParseException", <<>>, input \o <<"#">>)
        ELSE IF IsErr(datatype) THEN datatype
        ELSE Ok([row |-> "Attribute",
                 name |-> pieces.v.name,
                 datatype |-> datatype.v,
                 comment |-> RawStr(Strip(RStripChars(pieces.v.comment, {"#"}))),
                 default |-> pieces.v.default])

\* bool(x) of an Optional[str] field
StrTruthy(x) == ~IsNone(x) /\ Len(x.v) > 0

\* Attribute.make
Attribute_make(self) ==
    LET type == <<" ", ":", " ">> \o DJ_Type_make(self.datatype)
        dflt == <<" ", "=", " ">> \o self.default.v
        cmnt == <<" ", "#", " ">> \o self.comment.v
    IN  IF StrTruthy(self.comment) /\ StrTruthy(self.default)
        THEN self.name \o dflt \o type \o cmnt
        ELSE IF StrTruthy(self.comment) THEN self.name \o type \o cmnt
        ELSE IF StrTruthy(self.default) THEN self.name \o dflt \o type
        ELSE self.name \o type

\* key.make() / attr.make(): dispatch on the class of the row
Row_make(self) ==
    IF self.row = "Attribute" THEN Attribute_make(self)
    ELSE IF self.row = "Dependency" THEN Dependency_make(self)
    ELSE Comment_make(self)

-----------------------------------------------------------------------------
(* model/table.py: Table *)

\* Table(name=..., tier=..., comment=..., keys=..., attributes=...): the
\* pydantic constructor; tier is validated against the Literal TIERS, keys is
\* any list, attributes is None or a list
Table(name, tier_, comment_, keys_, attributes) ==
    IF tier_ \notin TIERS THEN Err("ValidationError", <<"t","i","e","r">>, tier_)
    ELSE Ok([name |-> name, tier |-> tier_, comment |-> comment_,
             keys |-> keys_, attributes |-> attributes])

\* the default of the field tier, used when the constructor is called without it
Table_tier_default == Manual

\* from_definition, lines 52-53: the tier handed to the constructor
TierOrDefault(tier_) == IF IsNone(tier_) THEN <<"M","A","N","U","A","L">> ELSE tier_.v

\* from_definition, line 34
IsCommentLine(line) == StartsWith(line, <<"#">>)

\* from_definition, line 38
IsDividerLine(line) == Contains(line, <<"-", "-", "-">>)

\* from_definition, lines 42-45: the row parser a line is routed to
Row_from_string(line) ==
    IF Contains(line, <<"-", ">">>) THEN Dependency_from_string(line)
    ELSE Attribute_from_string(line)

\* a divider line that flips the section instead of setting it
AfterDividerToggled(passed) == ~passed

\* from_definition, line 39: passed_keys after a divider line
AfterDivider(passed) == TRUE

\* a row error that is swallowed, the loop going on to the next line
RaiseSwallowed(exc) == [pc |-> "loop", result |-> None]

\* from_definition, lines 35, 43, 45: nothing catches the exception a row
\* parser raises, so it ends the call and is what the caller observes
Raise(exc) == [pc |-> "raised", result |-> exc]

\* from_definition, line 23
FromDefinitionSplit ==
    /\ pc = "split"
    /\ lines' = Split(definition, <<"\n">>)
    /\ pc' = "loop"
    /\ UNCHANGED <<definition, tier, idx, passed_keys, comment, keys, attrs, result>>

\* from_definition, lines 29-50: one iteration of the for loop.  An exception
\* raised by a row parser leaves the function: the caller observes it and
\* nothing else.
FromDefinitionLine ==
    /\ pc = "loop"
    /\ idx < Len(lines)
    /\ LET line == Strip(lines[idx + 1])
           c == Comment_from_string(line)
           attr == Row_from_string(line)
       IN  /\ idx' = idx + 1
           /\ IF Len(line) = 0
              THEN UNCHANGED <<pc, passed_keys, comment, keys, attrs, result>>
              ELSE IF IsCommentLine(line)
              THEN IF IsErr(c)
                   THEN /\ pc' = Raise(c).pc
                        /\ result' = Raise(c).result
                        /\ UNCHANGED <<passed_keys, comment, keys, attrs>>
                   ELSE /\ comment' = c.v
                        /\ UNCHANGED <<pc, passed_keys, keys, attrs, result>>
              ELSE IF IsDividerLine(line)
              THEN /\ passed_keys' = AfterDivider(passed_keys)
                   /\ UNCHANGED <<pc, comment, keys, attrs, result>>
              ELSE IF IsErr(attr)
              THEN /\ pc' = Raise(attr).pc
                   /\ result' = Raise(attr).result
                   /\ UNCHANGED <<passed_keys, comment, keys, attrs>>
              ELSE /\ IF passed_keys
                      THEN attrs' = Append(attrs, attr.v) /\ UNCHANGED keys
                      ELSE keys' = Append(keys, attr.v) /\ UNCHANGED attrs
                   /\ UNCHANGED <<pc, passed_keys, comment, result>>
    /\ UNCHANGED <<definition, tier, lines>>

\* from_definition, lines 52-55
FromDefinitionReturn ==
    /\ pc = "loop"
    /\ idx = Len(lines)
    /\ result' = Table(<<"F","o","o">>, TierOrDefault(tier), comment, keys, RawList(attrs))
    /\ pc' = IF IsOk(result') THEN "returned" ELSE "raised"
    /\ UNCHANGED <<definition, tier, lines, idx, passed_keys, comment, keys, attrs>>

\* one line of the rendered text: prefix, the row's text, newline
RenderLine(prefix, text) == prefix \o text \o <<"\n">>

\* out_str += prefix + row.make() + "\n" for every row of rows, in order
RECURSIVE RenderRows(_, _)
RenderRows(prefix, rows) ==
    IF Len(rows) = 0 THEN <<>>
    ELSE RenderLine(prefix, Row_make(Head(rows))) \o RenderRows(prefix, Tail(rows))

\* Table._make_python
Table_make_python(self) ==
    LET indent == <<" ", " ", " ", " ">>
        front == <<"@","s","c","h","e","m","a","\n">>
                 \o <<"c","l","a","s","s"," ">> \o self.name
                 \o <<"(","d","j",".">> \o self.tier \o <<")",":","\n">>
                 \o indent \o <<"d","e","f","i","n","i","t","i","o","n"," ","="," ","\"","\"","\"","\n">>
        cmnt == IF ~IsNone(self.comment)
                THEN RenderLine(indent, Comment_make(self.comment)) ELSE <<>>
        divider == indent \o <<"-","-","-","\n">>
    IN  IF IsNone(self.attributes) THEN Err("TypeError", <<>>, <<>>)
        ELSE Ok(RawStr(front \o cmnt \o RenderRows(indent, self.keys) \o divider
                       \o RenderRows(indent, self.attributes.v)
                       \o indent \o <<"\"","\"","\"">>))

\* Table._make_matlab
Table_make_matlab(self) ==
    LET hash == <<"#", " ">>
        cmnt == IF ~IsNone(self.comment)
                THEN RenderLine(hash, Comment_make(self.comment)) ELSE <<>>
    IN  IF IsNone(self.attributes) THEN Err("TypeError", <<>>, <<>>)
        ELSE Ok(RawStr(<<"%","{","\n">> \o cmnt \o RenderRows(hash, self.keys)
                       \o <<"-","-","-","\n">>
                       \o RenderRows(hash, self.attributes.v)
                       \o <<"%","}","\n","\n">>
                       \o <<"c","l","a","s","s","d","e","f"," ">> \o self.name
                       \o <<" ","<"," ","d","j",".">> \o self.tier
                       \o <<"\n","e","n","d">>))

\* Table.make: a lang that matches neither branch falls off the end of the
\* function, which returns None
Table_make(self, lang) ==
    IF lang = <<"p","y","t","h","o","n">> THEN Table_make_python(self)
    ELSE IF Lower(lang) = <<"m","a","t","l","a","b">> THEN Table_make_matlab(self)
    ELSE Ok(None)

-----------------------------------------------------------------------------
(* The type tokens the pipeline is run on: every keyword of DATATYPES,     *)
(* bare or with parameters, with or without the suffix " unsigned", the    *)
(* filepath@store form, and an unrecognized keyword.                       *)

ParamForms == {
    <<>>,
    <<"(","2","0",")">>,
    <<"(","4",",","2",")">>,
    <<"(","'","a","'",",","'","b","'",")">> }

UnsignedSuffix == <<" ","u","n","s","i","g","n","e","d">>

StoreForms == {
    <<"f","i","l","e","p","a","t","h","@","s","t","o","r","e">>,
    <<"f","i","l","e","p","a","t","h","@","r","a","w">> }

UnknownForms == { <<"f","o","o">> }

TypeTokens ==
    {kw \o p \o u : kw \in DATATYPES, p \in ParamForms, u \in {<<>>, UnsignedSuffix}}
    \cup StoreForms \cup UnknownForms

\* parsed = DJ_Type.from_string(t)
TypeParse ==
    /\ t_pc = "from_string"
    /\ t_parsed' = DJ_Type_from_string(t_input)
    /\ t_pc' = IF IsOk(t_parsed') THEN "make" ELSE "raised"
    /\ UNCHANGED <<t_input, t_made, t_reparsed>>

\* made = parsed.make()
TypeMake ==
    /\ t_pc = "make"
    /\ t_made' = Ok(DJ_Type_make(t_parsed.v))
    /\ t_pc' = "reparse"
    /\ UNCHANGED <<t_input, t_parsed, t_reparsed>>

\* reparsed = DJ_Type.from_string(made)
TypeReparse ==
    /\ t_pc = "reparse"
    /\ t_reparsed' = DJ_Type_from_string(t_made.v)
    /\ t_pc' = "done"
    /\ UNCHANGED <<t_input, t_parsed, t_made>>

-----------------------------------------------------------------------------
(* Table.from_definition is run on every body of at most MaxLines lines    *)
(* drawn from DefinitionLines, and on every tier argument of TierArgs.     *)

MaxLines == 3

DefinitionLines == {
    <<>>,                                           \* blank
    <<"#"," ","c">>,                                \* comment
    <<"#"," ","-","-","-">>,                        \* comment whose text is ---
    <<"#","x">>,                                    \* malformed comment
    <<"-","-","-">>,                                \* divider
    <<" ","a"," ",":"," ","i","n","t"," ">>,        \* attribute, to be trimmed
    <<"-",">"," ","T">>,                            \* dependency
    <<"a","-",">">>,                                \* malformed dependency
    <<"i","n","d","e","x","(","a",")">>,            \* index declaration
    <<"b",":","f","o","o">> }                       \* attribute of unknown type

RECURSIVE SeqsUpTo(_, _)
SeqsUpTo(S, n) ==
    IF n = 0 THEN {<<>>}
    ELSE {<<>>} \cup {<<x>> \o q : x \in S, q \in SeqsUpTo(S, n - 1)}

Bodies == {Join(ls, <<"\n">>) : ls \in SeqsUpTo(DefinitionLines, MaxLines)}

TierArgs == {None} \cup {RawStr(t) : t \in {Manual, Part, <<"B","o","g","u","s">>}}

\* the call Table.from_definition("Foo", definition, tier), lines 25-28; the
\* type pipeline and Table.make are not running
TableInit ==
    /\ pc = "split"
    /\ definition \in Bodies
    /\ tier \in TierArgs
    /\ lines = <<>>
    /\ idx = 0
    /\ passed_keys = FALSE
    /\ comment = None
    /\ keys = <<>>
    /\ attrs = <<>>
    /\ result = None
    /\ t_pc = "idle"
    /\ t_input = <<>>
    /\ t_parsed = None
    /\ t_made = None
    /\ t_reparsed = None
    /\ m_pc = "idle"
    /\ m_args = None
    /\ m_self = None
    /\ m_lang = <<>>
    /\ m_out = None

TableNext ==
    \/ FromDefinitionSplit /\ UNCHANGED <<t_vars, m_vars>>
    \/ FromDefinitionLine /\ UNCHANGED <<t_vars, m_vars>>
    \/ FromDefinitionReturn /\ UNCHANGED <<t_vars, m_vars>>

TableSpec == TableInit /\ [][TableNext]_vars

\* DJ_Type.from_string is about to be called on a token; Table.from_definition
\* and Table.make are not running
TypeInit ==
    /\ t_pc = "from_string"
    /\ t_input \in TypeTokens
    /\ t_parsed = None
    /\ t_made = None
    /\ t_reparsed = None
    /\ pc = "idle"
    /\ definition = <<>>
    /\ tier = None
    /\ lines = <<>>
    /\ idx = 0
    /\ passed_keys = FALSE
    /\ comment = None
    /\ keys = <<>>
    /\ attrs = <<>>
    /\ result = None
    /\ m_pc = "idle"
    /\ m_args = None
    /\ m_self = None
    /\ m_lang = <<>>
    /\ m_out = None

TypeNext ==
    \/ TypeParse /\ UNCHANGED <<d_vars, m_vars>>
    \/ TypeMake /\ UNCHANGED <<d_vars, m_vars>>
    \/ TypeReparse /\ UNCHANGED <<d_vars, m_vars>>

TypeSpec == TypeInit /\ [][TypeNext]_vars

-----------------------------------------------------------------------------
(* Table.make is run on tables built programmatically, Table(name=...,     *)
(* keys=..., ...), with at most MaxRows rows per section; an argument that *)
(* is None in m_args is one the caller leaves out.                         *)

MaxRows == 2

RowValues == {
    Row_from_string(<<"a", ":", "i", "n", "t">>).v,
    Row_from_string(<<"-", ">", " ", "T">>).v }

Langs == {
    <<"p","y","t","h","o","n">>,
    <<"m","a","t","l","a","b">>,
    <<"M","A","T","L","A","B">>,
    <<"P","y","t","h","o","n">>,
    <<"j","u","l","i","a">> }

MakeInit ==
    /\ m_pc = "build"
    /\ \E t \in {None} \cup {RawStr(x) : x \in {Computed, Part}},
          c \in {None, Comment_from_string(<<"#", " ", "c">>).v},
          ks \in SeqsUpTo(RowValues, MaxRows),
          as \in {None} \cup {RawList(l) : l \in SeqsUpTo(RowValues, MaxRows)} :
            m_args = [tier |-> t, comment |-> c, keys |-> ks, attributes |-> as]
    /\ m_lang \in Langs
    /\ m_self = None
    /\ m_out = None
    /\ t_pc = "idle"
    /\ t_input = <<>>
    /\ t_parsed = None
    /\ t_made = None
    /\ t_reparsed = None
    /\ pc = "idle"
    /\ definition = <<>>
    /\ tier = None
    /\ lines = <<>>
    /\ idx = 0
    /\ passed_keys = FALSE
    /\ comment = None
    /\ keys = <<>>
    /\ attrs = <<>>
    /\ result = None

\* self = Table(name="Foo", **m_args); a field left out takes its default
\* (tier 'Manual', comment None, attributes None)
TableBuild ==
    /\ m_pc = "build"
    /\ m_self' = Table(<<"F","o","o">>,
                       IF IsNone(m_args.tier) THEN Table_tier_default ELSE m_args.tier.v,
                       m_args.comment, m_args.keys, m_args.attributes)
    /\ m_pc' = IF IsOk(m_self') THEN "make" ELSE "raised"
    /\ UNCHANGED <<m_args, m_lang, m_out>>

\* out = self.make(lang)
TableMake ==
    /\ m_pc = "make"
    /\ m_out' = Table_make(m_self.v, m_lang)
    /\ m_pc' = "done"
    /\ UNCHANGED <<m_args, m_self, m_lang>>

MakeNext ==
    \/ TableBuild /\ UNCHANGED <<t_vars, d_vars>>
    \/ TableMake /\ UNCHANGED <<t_vars, d_vars>>

MakeSpec == MakeInit /\ [][MakeNext]_vars

-----------------------------------------------------------------------------
(* Properties of Table.from_definition, stated over the definition body    *)
(* the call was given, independently of the loop's variables.              *)

\* the lines of the body, trimmed
TrimmedLines == LET ls == Split(definition, <<"\n">>) IN [i \in 1..Len(ls) |-> Strip(ls[i])]

\* a row line: non-empty after trimming, not starting with '#', no '---'
IsRowLine(l) == Len(l) > 0 /\ l[1] # "#" /\ ~Contains(l, <<"-", "-", "-">>)

\* the parsed rows of the row lines among ls[lo..hi], in order
RECURSIVE ParsedRows(_, _, _)
ParsedRows(ls, lo, hi) ==
    IF lo > hi THEN <<>>
    ELSE IF IsRowLine(ls[lo]) THEN <<Row_from_string(ls[lo]).v>> \o ParsedRows(ls, lo + 1, hi)
    ELSE ParsedRows(ls, lo + 1, hi)

\* the smallest element of a non-empty set of numbers, 0 for the empty set
Least(S) == IF S = {} THEN 0 ELSE CHOOSE i \in S : \A j \in S : i <= j

\* position of the first line containing '---' (one past the end when none)
FirstDashLine ==
    LET S == {i \in 1..Len(TrimmedLines) : Contains(TrimmedLines[i], <<"-", "-", "-">>)}
    IN  IF S = {} THEN Len(TrimmedLines) + 1 ELSE Least(S)

\* position of the first line containing '---' that is not a '#' line
FirstDivider ==
    LET S == {i \in 1..Len(TrimmedLines) :
                /\ Contains(TrimmedLines[i], <<"-", "-", "-">>)
                /\ TrimmedLines[i][1] # "#"}
    IN  IF S = {} THEN Len(TrimmedLines) + 1 ELSE Least(S)

\* C1 as stated: on success, keys is the parsed row lines before the first
\* line containing '---' and attributes the parsed row lines after it, in
\* encounter order.
C1_SectionsSplitAtFirstDashLine ==
    pc = "returned" =>
        /\ result.v.keys = ParsedRows(TrimmedLines, 1, FirstDashLine - 1)
        /\ result.v.attributes.v =
               ParsedRows(TrimmedLines, FirstDashLine + 1, Len(TrimmedLines))

\* C1 amended: on success, keys is the parsed row lines before the first
\* line that contains '---' and does not start with '#', and attributes is
\* the parsed row lines after that line, each in encounter order (a '#' line
\* containing '---' is a comment, not a divider); a later divider never
\* switches collection back to keys.
C1_SectionsSplitAtFirstDivider ==
    pc = "returned" =>
        /\ result.v.keys = ParsedRows(TrimmedLines, 1, FirstDivider - 1)
        /\ result.v.attributes.v =
               ParsedRows(TrimmedLines, FirstDivider + 1, Len(TrimmedLines))

\* a successful parse with rows in both sections and a second divider line
C1_Witness ==
    /\ pc = "returned"
    /\ Len(result.v.attributes.v) > 0
    /\ \E i, j \in 1..Len(TrimmedLines) :
          /\ i < j
          /\ TrimmedLines[i] = <<"-", "-", "-">>
          /\ TrimmedLines[j] = <<"-", "-", "-">>

\* what parsing one trimmed line yields: the Comment, the row, or the error
LineOutcome(l) ==
    IF Len(l) = 0 \/ (l[1] # "#" /\ Contains(l, <<"-", "-", "-">>)) THEN Ok(<<>>)
    ELSE IF l[1] = "#" THEN Comment_from_string(l)
    ELSE Row_from_string(l)

\* position of the first line of ls, from position i on, whose parse fails
\* (0 when every line parses)
RECURSIVE FirstFailingFrom(_, _)
FirstFailingFrom(ls, i) ==
    IF i > Len(ls) THEN 0
    ELSE IF IsErr(LineOutcome(ls[i])) THEN i
    ELSE FirstFailingFrom(ls, i + 1)

FirstFailing == FirstFailingFrom(TrimmedLines, 1)

\* C2: from_definition is fail-fast.  When a line of the body fails to
\* parse, the call ends at the first failing line in encounter order with
\* exactly that line's error; no Table is returned, no later line is
\* consumed, and until the call ends the caller observes nothing.
C2_FailFast ==
    LET first == FirstFailing
    IN  /\ pc \in {"split", "loop"} => IsNone(result)
        /\ first # 0 =>
              /\ idx <= first
              /\ pc # "returned"
              /\ idx = first =>
                    /\ pc = "raised"
                    /\ IsErr(result)
                    /\ result.v = LineOutcome(TrimmedLines[first]).v
        /\ (pc = "raised" /\ idx < Len(lines)) => first # 0

\* a call that raised on a row line after collecting a valid key row, with
\* an unparsed line left behind it
C2_Witness ==
    /\ pc = "raised"
    /\ Len(keys) > 0
    /\ idx < Len(lines)
    /\ IsRowLine(TrimmedLines[idx])
    /\ result.v.type \in {"ParseError", "NotImplementedError", "ValidationError"}

\* the call has ended, by a return or by an exception
Ended == pc \in {"returned", "raised"}

\* C3: from_definition called with no tier argument, on a body whose rows
\* all parse, succeeds and returns a Table whose tier is 'Manual'.
C3_TierDefaultsToManual ==
    (Ended /\ IsNone(tier) /\ FirstFailing = 0) =>
        /\ pc = "returned"
        /\ result.v.tier = Manual

\* position of the first '#' line that comes before every row line and
\* before the divider (0 when there is none)
LeadingCommentLine ==
    LET ls == TrimmedLines
        stop == Least({i \in 1..Len(ls) : Len(ls[i]) > 0 /\ ls[i][1] # "#"})
        last == IF stop = 0 THEN Len(ls) ELSE stop - 1
    IN  Least({i \in 1..last : Len(ls[i]) > 0 /\ ls[i][1] = "#"})

\* C4: on success the table's comment is the first '#' line that precedes
\* every key line (None when there is none); a later '#' line never replaces
\* or changes it.
C4_CommentIsLeadingComment ==
    pc = "returned" =>
        IF LeadingCommentLine = 0 THEN IsNone(result.v.comment)
        ELSE /\ ~IsNone(result.v.comment)
             /\ result.v.comment = Comment_from_string(TrimmedLines[LeadingCommentLine]).v

\* C5: a body with no row line before the divider is rejected; no Table
\* with an empty keys sequence is produced.
C5_EmptyKeysRejected ==
    pc = "returned" => Len(result.v.keys) > 0

\* C6: a supplied tier is accepted exactly when it is one of Manual, Lookup,
\* Imported, Computed, Part, and the Table then carries it; any other string
\* ends the call with an error.
C6_FiveTiersAccepted ==
    (Ended /\ ~IsNone(tier) /\ FirstFailing = 0) =>
        /\ pc = "returned" <=> tier.v \in {Manual, Lookup, Imported, Computed, Part}
        /\ pc = "returned" => result.v.tier = tier.v
        /\ pc = "raised" => IsErr(result)

-----------------------------------------------------------------------------
(* Properties of Table.make *)

RecognizedLangs == { <<"p","y","t","h","o","n">>, <<"m","a","t","l","a","b">> }

\* C7: make called with a dialect other than 'python' and 'matlab' fails
\* with an error; it never returns normally.
C7_UnknownDialectRaises ==
    (m_pc = "done" /\ m_lang \notin RecognizedLangs) => IsErr(m_out)

\* the table make is called on has no attribute row
NoAttributeRows ==
    IsNone(m_self.v.attributes) \/ Len(m_self.v.attributes.v) = 0

\* the lines of a rendered text, trimmed
RenderedLines(text) ==
    LET ls == Split(text, <<"\n">>) IN [i \in 1..Len(ls) |-> Strip(ls[i])]

\* a rendered line that carries the text of a row
IsRenderedRow(l) == \E r \in RowValues : EndsWith(l, Row_make(r))

\* C8: rendering a Table with zero attribute rows (attributes empty, or left
\* at its default) succeeds in both dialects, and the output has the '---'
\* divider line exactly once, after all key rows, with no row after it.
C8_DividerRenderedWithoutAttributes ==
    (m_pc = "done" /\ m_lang \in RecognizedLangs /\ NoAttributeRows) =>
        /\ IsOk(m_out)
        /\ ~IsNone(m_out.v)
        /\ LET ls == RenderedLines(m_out.v.v)
               dividers == {i \in 1..Len(ls) : ls[i] = <<"-", "-", "-">>}
               d == Least(dividers)
               nk == Len(m_self.v.keys)
           IN  /\ Cardinality(dividers) = 1
               /\ d > nk
               /\ \A i \in 1..nk : EndsWith(ls[d - nk + i - 1], Row_make(m_self.v.keys[i]))
               /\ \A i \in (d + 1)..Len(ls) : ~IsRenderedRow(ls[i])

-----------------------------------------------------------------------------
(* Properties of DJ_Type *)

\* the tokens of the supported grammar among TypeTokens
GrammarTokens == TypeTokens \ UnknownForms

\* equality of two DJ_Type values in datatype, args and unsigned
DJ_Type_eq(a, b) ==
    /\ a.datatype = b.datatype
    /\ a.unsigned = b.unsigned
    /\ a.args.k = b.args.k
    /\ a.args.v = b.args.v

\* C9: for every token t of the supported grammar, from_string(t) succeeds
\* and from_string(from_string(t).make()) equals from_string(t).
C9_TypeRoundTrip ==
    t_input \in GrammarTokens =>
        /\ t_pc # "raised"
        /\ t_pc = "done" => /\ IsOk(t_reparsed)
                            /\ DJ_Type_eq(t_reparsed.v, t_parsed.v)

\* C10: from_string(k + p + ' unsigned') has datatype k, the parameters of
\* from_string(k + p) and unsigned true; a token that does not end with
\* ' unsigned' has unsigned false.
C10_UnsignedSuffix ==
    (t_pc \in {"make", "raised"} /\ t_input \in GrammarTokens \ StoreForms) =>
        LET signed == EndsWith(t_input, UnsignedSuffix)
            base == IF signed THEN Slice(t_input, 1, Len(t_input) - Len(UnsignedSuffix))
                    ELSE t_input
            plain == DJ_Type_from_string(base)
        IN  /\ IsOk(plain)
            /\ IsOk(t_parsed)
            /\ t_parsed.v.datatype = plain.v.datatype
            /\ t_parsed.v.datatype \in DATATYPES
            /\ StartsWith(t_input, t_parsed.v.datatype)
            /\ t_parsed.v.args.k = plain.v.args.k
            /\ t_parsed.v.args.v = plain.v.args.v
            /\ t_parsed.v.unsigned = signed


\* the store name of a token filepath@<store>: the text after the '@'
StoreName(t) == Slice(t, Find(t, <<"@">>) + 1, Len(t))

\* C11: for every token filepath@<store>, from_string succeeds with datatype
\* 'filepath' and the store name as its single parameter, and make() of
\* that value emits filepath@<store>.
C11_FilepathStore ==
    (t_input \in StoreForms /\ t_pc # "from_string") =>
        /\ IsOk(t_parsed)
        /\ t_parsed.v.datatype = <<"f","i","l","e","p","a","t","h">>
        /\ t_parsed.v.args.k = "strs"
        /\ t_parsed.v.args.v = <<StoreName(t_input)>>
        /\ t_pc \in {"reparse", "done"} => t_made.v = t_input

====
